---- MODULE Spec2Model ----
(***************************************************************************)
(* rest-container: lifecycle managers (create / start / stop / delete) of  *)
(* src/src/containers.py over a Docker daemon and a Kubernetes API server. *)
(*                                                                         *)
(* The backends are remote services; they are modelled by the state they   *)
(* keep (networks, containers, namespaces, policies, pods, services) and   *)
(* every manager method is one atomic action that performs, in program     *)
(* order, all the backend calls of the method.  The server handles one     *)
(* request at a time: `last' holds the manager call whose response is      *)
(* being handed back (its arguments, the backend calls it issued, the      *)
(* exception kind it raised, NoExc when it returned, and the list it       *)
(* returned); Deliver hands it over and the next request can be taken.     *)
(***************************************************************************)
EXTENDS Integers, Sequences, FiniteSets, TLC

(* ------------------------------ bounds --------------------------------- *)
MaxPublish == 2      \* longest publish_information map
MaxIds     == 2      \* longest container_ids list
MaxCid     == 2      \* Docker container ids handed out by the daemon
MaxUid     == 3      \* Kubernetes UIDs handed out by the API server

(* ------------------------------ values --------------------------------- *)
None  == 0           \* Python None / empty string of an address or a port
NoExc == "returned"  \* the call returned normally

Names    == {"a", "b"}                 \* container_name
RC_DOCKER_NETWORK       == "rc-net"    \* constants.RC_DOCKER_NETWORK
RC_KUBERNETES_NAMESPACE == "rc-ns"     \* constants.RC_KUBERNETES_NAMESPACE
NetArgs  == {"", "n1"}                 \* container_network of a Docker create payload
NsArgs   == {""}                       \* container_network of a Kubernetes create payload
Runtimes == {"docker", "kubernetes", "unknown"}

\* publish_information keys "<port>/<protocol>", as character sequences
K80tcp  == <<"8", "0", "/", "t", "c", "p">>
K80udp  == <<"8", "0", "/", "u", "d", "p">>
K443tcp == <<"4", "4", "3", "/", "t", "c", "p">>
\* the entries publish_information is made of
Entries == {<<K80tcp, 8080>>, <<K443tcp, 8443>>, <<K80udp, 8080>>}

\* a dict is an insertion-ordered sequence of <<key, value>> with distinct keys
SeqsUpTo(S, n) == UNION {[1..k -> S] : k \in 0..n}
IsDict(d) == \A i, j \in 1..Len(d) : i # j => d[i][1] # d[j][1]
PublishMaps == {d \in SeqsUpTo(Entries, MaxPublish) : IsDict(d)}
IdLists(max) == SeqsUpTo(1..max, MaxIds)

VARIABLES runtime,     \* utils.get_runtime_environment() of this process
          networks,    \* Docker: network name -> number of networks so named
          containers,  \* Docker: container id -> [name, network, status]
          namespaces,  \* Kubernetes: names of the namespaces
          policies,    \* Kubernetes: namespaces holding deny-from-other-namespaces
          pods,        \* Kubernetes: set of Pod objects
          services,    \* Kubernetes: set of Service objects
          nextUid,     \* Kubernetes: next metadata.uid
          last         \* the last manager call and its outcome

vars == <<runtime, networks, containers, namespaces, policies, pods,
          services, nextUid, last>>


DockerNetworks == {RC_DOCKER_NETWORK, "n1"}        \* network names in use
K8sNamespaces  == {RC_KUBERNETES_NAMESPACE}        \* namespaces asked for
K8sNsQueries   == {RC_KUBERNETES_NAMESPACE, "n1"}  \* namespaces start/stop/delete name
Cids == 1..MaxCid

(* ----------------------- client binding ------------------------------- *)
\* class attribute `client' of each manager, set at class definition
DockerClient(rt) == IF rt = "docker" THEN "docker.from_env" ELSE "None"
KubernetesClient(rt) == IF rt = "kubernetes" THEN "CoreV1Api" ELSE "None"

\* the classes module src/exceptions.py defines
ExceptionClasses == {"UnsupportedContainerEnvironment", "UnsupportedImageName",
                     "ContainerManagerNotFound", "ContainerIpUnresolved",
                     "EnvironmentMismatch"}

\* evaluating `exceptions.<name>': the class, or AttributeError when the
\* module has no attribute of that name
ExceptionsAttr(name) == IF name \in ExceptionClasses THEN name ELSE "AttributeError"

\* ContainerManager.check_client: the exception it raises, NoExc if none
check_client(client) ==
    IF client = "None" THEN ExceptionsAttr("ContainerClientNotResolved") ELSE NoExc

\* A try statement whose except clauses name, in order, the classes of
\* `clauses' (library classes, or attributes of src/exceptions.py), each
\* re-raising its own kind, optionally closed by
\* `except Exception'.  The clauses are tried in order; evaluating the name
\* of a clause that src/exceptions.py does not define raises AttributeError
\* in place of the exception being handled, and it leaves the statement.
LibraryClasses == {"DockerException", "ApiException", "KeyError", "JSONDecodeError"}
RECURSIVE Handle(_, _, _, _)
Handle(kind, clauses, i, catchAll) ==
    IF kind = NoExc THEN NoExc
    ELSE IF i > Len(clauses) THEN (IF catchAll THEN "Exception" ELSE kind)
    ELSE IF clauses[i] \in LibraryClasses
    THEN (IF kind = clauses[i] THEN kind ELSE Handle(kind, clauses, i + 1, catchAll))
    ELSE IF ExceptionsAttr(clauses[i]) = "AttributeError" THEN "AttributeError"
    ELSE IF kind = clauses[i] THEN kind
    ELSE Handle(kind, clauses, i + 1, catchAll)

(* ------------------ a call in progress ("world") ----------------------- *)
\* The backend state a manager call works on, the backend calls it has
\* issued so far, which of them (0: none) a transport fault hit, the
\* exception in flight and the value it returns.
World == [networks |-> networks, containers |-> containers,
          namespaces |-> namespaces, policies |-> policies, pods |-> pods,
          services |-> services, nextUid |-> nextUid,
          calls |-> <<>>, faulted |-> 0, exc |-> NoExc, ret |-> <<>>,
          result |-> <<>>]

\* One backend call: it is appended to the trace, and it raises the
\* backend's exception when it is the call a transport fault hits.
Issue(w, verb, arg, fail, backendExc) ==
    [w EXCEPT !.calls = Append(@, <<verb, arg>>),
              !.faulted = IF Len(w.calls) + 1 = fail THEN fail ELSE @,
              !.exc = IF Len(w.calls) + 1 = fail THEN backendExc ELSE @]

Raise(w, kind) == [w EXCEPT !.exc = kind]
Return(w, result) == [w EXCEPT !.result = result]
Failed(w) == w.exc # NoExc

\* a raise leaves the caller without the list built so far
Outcome(w) == IF Failed(w) THEN [w EXCEPT !.result = <<>>, !.ret = <<>>]
              ELSE [w EXCEPT !.ret = <<>>]

Verbs(calls) == [i \in 1..Len(calls) |-> calls[i][1]]
Count(seq, x) == Cardinality({i \in 1..Len(seq) : seq[i] = x})
Range(seq) == {seq[i] : i \in 1..Len(seq)}

(* ============================ Docker =================================== *)
AbsentContainer == [name |-> "", network |-> "", status |-> "absent"]

\* containers.get(id) finds the container (otherwise docker.errors.NotFound)
ContainerExists(cs, id) ==
    id \in DOMAIN cs /\ cs[id].status \notin {"absent", "removed"}

\* the daemon's id for the next container
FreshCid(cs) == CHOOSE c \in Cids : cs[c].status = "absent"
                                    /\ \A d \in Cids : cs[d].status = "absent" => c <= d

NameTaken(cs, name) == \E c \in Cids : ContainerExists(cs, c) /\ cs[c].name = name

\* container.attrs['NetworkSettings']['Networks'] after reload: one entry for
\* the network the container is attached to; its IPAddress is empty unless
\* the container is running
AttrsNetworks(c) == {c.network}
IPAddress(cs, id) == IF cs[id].status = "running" THEN id ELSE None

\* the except clauses of every DockerContainerManager method:
\* docker.errors.DockerException, exceptions.ContainerClientNotResolved
DockerRewrap(kind) ==
    Handle(kind, <<"DockerException", "ContainerClientNotResolved">>, 1, FALSE)
DockerRewrapped(w) == [w EXCEPT !.exc = DockerRewrap(@)]

\* DockerContainerManager.__init__
DockerNetworkOf(container_network) ==
    IF container_network = "" THEN RC_DOCKER_NETWORK ELSE container_network

\* variant: the network is created without looking for an existing one
Docker_create_network_unchecked(w, client, container_network, fail) ==
    DockerRewrapped(
    IF check_client(client) # NoExc THEN Raise(w, check_client(client))
    ELSE LET w1 == Issue(w, "networks.list", container_network, fail, "DockerException")
             w2 == Issue(w1, "networks.create", container_network, fail,
                         "DockerException")
         IN  IF Failed(w1) THEN w1
             ELSE IF Failed(w2) THEN w2
             ELSE [w2 EXCEPT !.networks[container_network] = @ + 1])

\* variant: the network is looked for and never created
Docker_create_network_lookup_only(w, client, container_network, fail) ==
    DockerRewrapped(
    IF check_client(client) # NoExc THEN Raise(w, check_client(client))
    ELSE Issue(w, "networks.list", container_network, fail, "DockerException"))

\* DockerContainerManager.create_network
Docker_create_network(w, client, container_network, fail) ==
    DockerRewrapped(
    IF check_client(client) # NoExc THEN Raise(w, check_client(client))
    ELSE LET w1 == Issue(w, "networks.list", container_network, fail, "DockerException")
         IN  IF Failed(w1) THEN w1
             ELSE IF w1.networks[container_network] > 0 THEN w1
             ELSE LET w2 == Issue(w1, "networks.create", container_network, fail,
                                  "DockerException")
                  IN  IF Failed(w2) THEN w2
                      ELSE [w2 EXCEPT !.networks[container_network] = @ + 1])

\* `for _, host_port in self.publish_information': iterating the dict yields
\* its keys, and each key (a string) is unpacked into exactly two items
UnpackPairs(publish_information) ==
    IF \A i \in 1..Len(publish_information) : Len(publish_information[i][1]) = 2
    THEN [ok |-> TRUE,
          host_ports |-> [i \in 1..Len(publish_information) |->
                             publish_information[i][1][2]]]
    ELSE [ok |-> FALSE, host_ports |-> <<>>]

\* the else branch of create_container: one entry, no port
DockerPortlessResult(id, container_network) ==
    << [container_id |-> id, container_network |-> container_network,
        container_port |-> None] >>

\* DockerContainerManager.create_container
Docker_create_container(w, client, container_name, container_network, publish_information, fail) ==
    DockerRewrapped(
    IF check_client(client) # NoExc THEN Raise(w, check_client(client))
    ELSE LET w1 == Docker_create_network(w, client, container_network, fail)
         IN  IF Failed(w1) THEN w1
             ELSE LET w2 == Issue(w1, "containers.create", container_name, fail,
                                  "DockerException")
                      id == FreshCid(w2.containers)
                  IN  IF Failed(w2) THEN w2
                      ELSE IF NameTaken(w2.containers, container_name)
                      THEN Raise(w2, "DockerException")
                      ELSE LET w3 == [w2 EXCEPT !.containers[id] =
                                          [name |-> container_name,
                                           network |-> container_network,
                                           status |-> "created"]]
                               up == UnpackPairs(publish_information)
                           IN  IF publish_information # <<>>
                               THEN IF up.ok
                                    THEN Return(w3,
                                           [i \in 1..Len(publish_information) |->
                                              [container_id |-> id,
                                               container_network |-> container_network,
                                               container_port |-> up.host_ports[i]]])
                                    ELSE Raise(w3, "ValueError")
                               ELSE Return(w3, DockerPortlessResult(id, container_network)))

\* container.start(): the daemon runs the container; a container whose
\* process ends at once is "exited" again when it is reloaded
DaemonStart(cs, id, crash) ==
    [cs EXCEPT ![id].status = IF id \in crash THEN "exited" ELSE "running"]

\* container.stop()
DaemonStop(cs, id) ==
    [cs EXCEPT ![id].status = IF @ = "running" THEN "exited" ELSE @]

\* variant: when an address is missing, the containers started for the
\* earlier ids are stopped again before the call fails
RECURSIVE Docker_start_loop_rolled_back(_, _, _, _, _, _)
Docker_start_loop_rolled_back(w, container_ids, i, container_network, crash, fail) ==
    IF i > Len(container_ids) THEN w
    ELSE
    LET id == container_ids[i]
        w1 == Issue(w, "containers.get", id, fail, "DockerException")
    IN  IF Failed(w1) THEN w1
        ELSE IF ~ContainerExists(w1.containers, id) THEN Raise(w1, "DockerException")
        ELSE
        LET w2 == Issue(w1, "container.start", id, fail, "DockerException")
        IN  IF Failed(w2) THEN w2
            ELSE
            LET w3 == [w2 EXCEPT !.containers = DaemonStart(@, id, crash)]
                w4 == Issue(w3, "container.reload", id, fail, "DockerException")
                undone == [w4 EXCEPT !.containers =
                              [c \in DOMAIN @ |->
                                  IF \E j \in 1..(i - 1) : container_ids[j] = c
                                  THEN [@[c] EXCEPT !.status = "exited"]
                                  ELSE @[c]]]
            IN  IF Failed(w4) THEN w4
                ELSE IF container_network \notin AttrsNetworks(w4.containers[id])
                THEN Raise(undone, "KeyError")
                ELSE IF IPAddress(w4.containers, id) = None
                THEN Raise(undone, "ContainerIpUnresolved")
                ELSE Docker_start_loop_rolled_back(
                        [w4 EXCEPT !.result = Append(@,
                            [container_id |-> id,
                             container_ip |-> IPAddress(w4.containers, id)])],
                        container_ids, i + 1, container_network, crash, fail)

RECURSIVE Docker_start_loop(_, _, _, _, _, _)
Docker_start_loop(w, container_ids, i, container_network, crash, fail) ==
    IF i > Len(container_ids) THEN w
    ELSE
    LET id == container_ids[i]
        w1 == Issue(w, "containers.get", id, fail, "DockerException")
    IN  IF Failed(w1) THEN w1
        ELSE IF ~ContainerExists(w1.containers, id) THEN Raise(w1, "DockerException")
        ELSE
        LET w2 == Issue(w1, "container.start", id, fail, "DockerException")
        IN  IF Failed(w2) THEN w2
            ELSE
            LET w3 == [w2 EXCEPT !.containers = DaemonStart(@, id, crash)]
                w4 == Issue(w3, "container.reload", id, fail, "DockerException")
            IN  IF Failed(w4) THEN w4
                ELSE IF container_network \notin AttrsNetworks(w4.containers[id])
                THEN Raise(w4, "KeyError")
                ELSE IF IPAddress(w4.containers, id) = None
                THEN Raise(w4, "ContainerIpUnresolved")
                ELSE Docker_start_loop(
                        [w4 EXCEPT !.result = Append(@,
                            [container_id |-> id,
                             container_ip |-> IPAddress(w4.containers, id)])],
                        container_ids, i + 1, container_network, crash, fail)

\* DockerContainerManager.start_container
Docker_start_container(w, client, container_ids, container_network, crash, fail) ==
    DockerRewrapped(
    IF check_client(client) # NoExc THEN Raise(w, check_client(client))
    ELSE Docker_start_loop(w, container_ids, 1, container_network, crash, fail))

\* variant: a failed id is skipped and the loop goes on with the next id
RECURSIVE Docker_stop_loop_keep_going(_, _, _, _, _, _)
Docker_stop_loop_keep_going(w, container_ids, i, container_network, status, fail) ==
    IF i > Len(container_ids) THEN w
    ELSE
    LET id == container_ids[i]
        w1 == Issue(w, "containers.get", id, fail, "DockerException")
        w2 == Issue(w1, "container.stop", id, fail, "DockerException")
    IN  IF ~ContainerExists(w1.containers, id)
        THEN Docker_stop_loop_keep_going(Raise(w1, "DockerException"), container_ids,
                                         i + 1, container_network, status, fail)
        ELSE Docker_stop_loop_keep_going(
                [w2 EXCEPT !.containers = DaemonStop(@, id)],
                container_ids, i + 1, container_network, status, fail)

\* the loop shared by stop_container and delete_container: both fetch the
\* container and call container.stop(); only the status string differs
RECURSIVE Docker_stop_loop(_, _, _, _, _, _)
Docker_stop_loop(w, container_ids, i, container_network, status, fail) ==
    IF i > Len(container_ids) THEN w
    ELSE
    LET id == container_ids[i]
        w1 == Issue(w, "containers.get", id, fail, "DockerException")
    IN  IF Failed(w1) THEN w1
        ELSE IF ~ContainerExists(w1.containers, id) THEN Raise(w1, "DockerException")
        ELSE
        LET w2 == Issue(w1, "container.stop", id, fail, "DockerException")
        IN  IF Failed(w2) THEN w2
            ELSE Docker_stop_loop(
                    [w2 EXCEPT !.containers = DaemonStop(@, id),
                               !.result = Append(@,
                                   [container_id |-> id,
                                    container_network |-> container_network,
                                    status |-> status])],
                    container_ids, i + 1, container_network, status, fail)

\* DockerContainerManager.stop_container
Docker_stop_container(w, client, container_ids, container_network, fail) ==
    DockerRewrapped(
    IF check_client(client) # NoExc THEN Raise(w, check_client(client))
    ELSE Docker_stop_loop(w, container_ids, 1, container_network, "stopped", fail))

\* DockerContainerManager.delete_container
Docker_delete_container(w, client, container_ids, container_network, fail) ==
    DockerRewrapped(
    IF check_client(client) # NoExc THEN Raise(w, check_client(client))
    ELSE Docker_stop_loop(w, container_ids, 1, container_network, "deleted", fail))

(* ========================== Kubernetes ================================= *)
Digits == <<"0", "1", "2", "3", "4", "5", "6", "7", "8", "9">>
Lower  == <<"a", "b", "c", "d", "e", "f", "g", "h", "i", "j", "k", "l", "m",
            "n", "o", "p", "q", "r", "s", "t", "u", "v", "w", "x", "y", "z">>
Upper  == <<"A", "B", "C", "D", "E", "F", "G", "H", "I", "J", "K", "L", "M",
            "N", "O", "P", "Q", "R", "S", "T", "U", "V", "W", "X", "Y", "Z">>

\* str.split(sep)
RECURSIVE Split(_, _)
Split(s, sep) ==
    IF \A i \in 1..Len(s) : s[i] # sep THEN <<s>>
    ELSE LET i == CHOOSE k \in 1..Len(s) :
                      s[k] = sep /\ \A j \in 1..(k - 1) : s[j] # sep
         IN  <<SubSeq(s, 1, i - 1)>> \o Split(SubSeq(s, i + 1, Len(s)), sep)

\* int(s): defined on non-empty digit strings, ValueError otherwise
IsInt(s) == s # <<>> /\ \A i \in 1..Len(s) : \E d \in 1..10 : Digits[d] = s[i]
DigitVal(c) == (CHOOSE d \in 1..10 : Digits[d] = c) - 1
RECURSIVE ParseInt(_)
ParseInt(s) == IF s = <<>> THEN 0
               ELSE ParseInt(SubSeq(s, 1, Len(s) - 1)) * 10 + DigitVal(s[Len(s)])

\* str.upper()
UpperChar(c) == IF \E k \in 1..26 : Lower[k] = c
                THEN Upper[CHOOSE k \in 1..26 : Lower[k] = c] ELSE c
ToUpper(s) == [i \in 1..Len(s) |-> UpperChar(s[i])]

\* a list built by iterating a set of ints (ascending here)
RECURSIVE SortedSeq(_)
SortedSeq(S) == IF S = {} THEN <<>>
                ELSE LET m == CHOOSE x \in S : \A y \in S : x <= y
                     IN  <<m>> \o SortedSeq(S \ {m})

\* variant: the list keeps one item per distinct internal port
extract_publish_information_one_per_port(publish_information) ==
    LET parts(i) == Split(publish_information[i][1], "/")
        good == \A i \in 1..Len(publish_information) :
                    Len(parts(i)) = 2 /\ IsInt(parts(i)[1])
        first == SortedSeq({i \in 1..Len(publish_information) :
                              \A j \in 1..(i - 1) : parts(j)[1] # parts(i)[1]})
    IN  IF ~good THEN [exc |-> "ValueError", unique_target_ports |-> {},
                       service_information_list |-> <<>>]
        ELSE [exc |-> NoExc,
              unique_target_ports |->
                  {ParseInt(parts(i)[1]) : i \in 1..Len(publish_information)},
              service_information_list |->
                  [k \in 1..Len(first) |->
                      [service_port |-> publish_information[first[k]][2],
                       target_port |-> ParseInt(parts(first[k])[1]),
                       protocol |-> ToUpper(parts(first[k])[2])]]]

\* KubernetesContainerManager.extract_publish_information
extract_publish_information(publish_information) ==
    LET parts(i) == Split(publish_information[i][1], "/")
        good == \A i \in 1..Len(publish_information) :
                    Len(parts(i)) = 2 /\ IsInt(parts(i)[1])
    IN  IF ~good THEN [exc |-> "ValueError", unique_target_ports |-> {},
                       service_information_list |-> <<>>]
        ELSE [exc |-> NoExc,
              unique_target_ports |->
                  {ParseInt(parts(i)[1]) : i \in 1..Len(publish_information)},
              service_information_list |->
                  [i \in 1..Len(publish_information) |->
                      [service_port |-> publish_information[i][2],
                       target_port |-> ParseInt(parts(i)[1]),
                       protocol |-> ToUpper(parts(i)[2])]]]

\* the except clauses of every KubernetesContainerManager method:
\* ApiException, exceptions.ContainerClientNotResolved, Exception
K8sRewrap(kind) ==
    Handle(kind, <<"ApiException", "ContainerClientNotResolved">>, 1, TRUE)
Rewrapped(w) == [w EXCEPT !.exc = K8sRewrap(@)]

\* KubernetesContainerManager.__init__
K8sNamespaceOf(container_network) ==
    IF container_network = "" THEN RC_KUBERNETES_NAMESPACE ELSE container_network

PodsIn(w, ns) == {p \in w.pods : p.namespace = ns}
ServicesIn(w, ns) == {s \in w.services : s.namespace = ns}

\* KubernetesContainerManager.create_namespace
K8s_create_namespace(w, client, namespace_name, fail) ==
    IF check_client(client) # NoExc THEN Raise(w, check_client(client))
    ELSE LET w1 == Issue(w, "list_namespace", namespace_name, fail, "ApiException")
         IN  IF Failed(w1) THEN w1
             ELSE IF namespace_name \in w1.namespaces THEN w1
             ELSE
             LET w2 == Issue(w1, "create_namespace", namespace_name, fail, "ApiException")
             IN  IF Failed(w2) THEN w2
                 ELSE
                 LET w3 == [w2 EXCEPT !.namespaces = @ \cup {namespace_name}]
                     w4 == Issue(w3, "create_namespaced_network_policy",
                                 namespace_name, fail, "ApiException")
                 IN  IF Failed(w4) THEN w4
                     ELSE [w4 EXCEPT !.policies = @ \cup {namespace_name}]

\* KubernetesContainerManager.create_service; the dict it returns is w.ret.
\* The API server keeps of a Service what the managers read back later:
\* uid, name, namespace, selector and clusterIP
K8s_create_service(w, client, service_name, app_name, namespace, service_port, target_port, protocol, fail) ==
    IF check_client(client) # NoExc THEN Raise(w, check_client(client))
    ELSE LET service_manifest == [name |-> service_name, selector |-> app_name,
                                  port |-> service_port, target_port |-> target_port,
                                  protocol |-> protocol, type |-> "LoadBalancer"]
             w1 == Issue(w, "create_namespaced_service", service_manifest, fail,
                         "ApiException")
         IN  IF Failed(w1) THEN w1
             ELSE IF \E s \in ServicesIn(w1, namespace) : s.name = service_name
             THEN Raise(w1, "ApiException")
             ELSE [w1 EXCEPT
                     !.services = @ \cup {[uid |-> w1.nextUid,
                                           name |-> service_manifest.name,
                                           namespace |-> namespace,
                                           selector |-> service_manifest.selector,
                                           cluster_ip |-> w1.nextUid]},
                     !.nextUid = @ + 1,
                     !.ret = [service_id |-> w1.nextUid,
                              service_ip |-> w1.nextUid,
                              service_name |-> service_manifest.name,
                              service_namespace |-> namespace,
                              service_port |-> service_port]]

\* variant: the Services are numbered from 1
RECURSIVE K8s_services_loop_from_one(_, _, _, _, _, _, _, _)
K8s_services_loop_from_one(w, client, service_name, app_name, namespace, service_information_list, i, fail) ==
    IF i > Len(service_information_list) THEN w
    ELSE
    LET item == service_information_list[i]
        w1 == Rewrapped(K8s_create_service(w, client, <<service_name, i>>,
                            app_name, namespace, item.service_port,
                            item.target_port, item.protocol, fail))
    IN  IF Failed(w1) THEN w1
        ELSE K8s_services_loop_from_one([w1 EXCEPT !.result = Append(@, w1.ret)],
                               client, service_name, app_name, namespace,
                               service_information_list, i + 1, fail)

\* KubernetesContainerManager.create_services_for_app; service_list is w.result
RECURSIVE K8s_services_loop(_, _, _, _, _, _, _, _)
K8s_services_loop(w, client, service_name, app_name, namespace, service_information_list, i, fail) ==
    IF i > Len(service_information_list) THEN w
    ELSE
    LET item == service_information_list[i]
        w1 == Rewrapped(K8s_create_service(w, client, <<service_name, i - 1>>,
                            app_name, namespace, item.service_port,
                            item.target_port, item.protocol, fail))
    IN  IF Failed(w1) THEN w1
        ELSE K8s_services_loop([w1 EXCEPT !.result = Append(@, w1.ret)], client,
                               service_name, app_name, namespace,
                               service_information_list, i + 1, fail)

\* variant: the loop returns from inside its first round
K8s_create_services_first_only(w, client, service_name, app_name, namespace, service_information_list, fail) ==
    IF check_client(client) # NoExc THEN Raise(w, check_client(client))
    ELSE Rewrapped(K8s_services_loop(w, client, service_name, app_name, namespace,
                                     IF service_information_list = <<>> THEN <<>>
                                     ELSE <<service_information_list[1]>>, 1, fail))

\* variant: when a Service cannot be created, those already created by the
\* call are deleted again
K8s_create_services_rolled_back(w, client, service_name, app_name, namespace, service_information_list, fail) ==
    IF check_client(client) # NoExc THEN Raise(w, check_client(client))
    ELSE LET r == Rewrapped(K8s_services_loop(w, client, service_name, app_name,
                                namespace, service_information_list, 1, fail))
         IN  IF Failed(r)
             THEN [r EXCEPT !.services = w.services,
                            !.calls = @ \o <<<<"delete_namespaced_service", service_name>>>>]
             ELSE r

K8s_create_services_for_app(w, client, service_name, app_name, namespace, service_information_list, fail) ==
    IF check_client(client) # NoExc THEN Raise(w, check_client(client))
    ELSE Rewrapped(K8s_services_loop(w, client, service_name, app_name, namespace,
                                     service_information_list, 1, fail))

\* the Pod create_container submits: metadata carries the name only (no
\* labels), the container one port per element of the set.  The API server
\* keeps of a Pod what the managers read back later (uid, name, namespace,
\* labels, podIP); podIP is not yet set when the Pod is created
PodManifest(container_name, unique_target_ports) ==
    [name |-> container_name, app |-> "", ports |-> SortedSeq(unique_target_ports)]

\* variant: nothing is returned when no port was asked for
K8sPortlessResult_nothing(pod) == <<>>

\* the else branch of create_container: the Pod's entry, no port
K8sPortlessResult(pod) ==
    << [container_id |-> pod.uid, container_network |-> pod.namespace,
        container_port |-> None] >>

\* KubernetesContainerManager.create_container
K8s_create_container(w, client, container_name, container_network, publish_information, fail) ==
    IF check_client(client) # NoExc THEN Raise(w, check_client(client))
    ELSE
    LET x == extract_publish_information(publish_information)
        pod_manifest == PodManifest(container_name, x.unique_target_ports)
        w1 == Rewrapped(K8s_create_namespace(w, client, container_network, fail))
        w2 == Issue(w1, "create_namespaced_pod", pod_manifest, fail, "ApiException")
        pod == [uid |-> w2.nextUid, name |-> pod_manifest.name,
                namespace |-> container_network, app |-> pod_manifest.app,
                pod_ip |-> None]
        w3 == [w2 EXCEPT !.pods = @ \cup {pod}, !.nextUid = @ + 1]
        w4 == K8s_create_services_for_app(w3, client, <<container_name, "service">>,
                  container_name, container_network, x.service_information_list, fail)
        services_list == w4.result
    IN  IF x.exc # NoExc THEN Rewrapped(Raise(w, x.exc))
        ELSE IF Failed(w1) THEN w1
        ELSE IF Failed(w2) THEN w2
        ELSE IF \E p \in PodsIn(w2, container_network) : p.name = container_name
        THEN Raise(w2, "ApiException")
        ELSE IF Failed(w4) THEN w4
        ELSE IF services_list # <<>>
        THEN Return(w4, [i \in 1..Len(services_list) |->
                            [container_id |-> services_list[i].service_id,
                             container_network |-> services_list[i].service_namespace,
                             container_port |-> services_list[i].service_port]])
        ELSE Return(w4, K8sPortlessResult(pod))

\* KubernetesContainerManager.start_container (it does not call check_client:
\* with no client the first attribute access raises AttributeError)
RECURSIVE K8s_start_loop(_, _, _, _, _)
K8s_start_loop(w, container_ids, i, pod_list, service_list) ==
    IF i > Len(container_ids) THEN w
    ELSE
    LET container_id == container_ids[i]
        w1 == IF \E p \in pod_list : p.uid = container_id
              THEN [w EXCEPT !.result = Append(@,
                       [container_id |-> container_id,
                        container_ip |->
                            (CHOOSE p \in pod_list : p.uid = container_id).pod_ip])]
              ELSE IF \E s \in service_list : s.uid = container_id
              THEN [w EXCEPT !.result = Append(@,
                       [container_id |-> container_id,
                        container_ip |->
                            (CHOOSE s \in service_list : s.uid = container_id).cluster_ip])]
              ELSE w
    IN  K8s_start_loop(w1, container_ids, i + 1, pod_list, service_list)

\* variant: Pods and Services are listed across all namespaces
K8s_start_container_all_namespaces(w, client, container_ids, container_network, fail) ==
    IF client = "None" THEN Rewrapped(Raise(w, "AttributeError"))
    ELSE
    LET w1 == Issue(w, "list_namespaced_pod", container_network, fail, "ApiException")
        w2 == Issue(w1, "list_namespaced_service", container_network, fail,
                    "ApiException")
    IN  IF Failed(w1) THEN Rewrapped(w1)
        ELSE IF Failed(w2) THEN Rewrapped(w2)
        ELSE K8s_start_loop(w2, container_ids, 1, w1.pods, w2.services)

\* variant: start evicts the Pods it reports
K8s_start_container_evicting(w, client, container_ids, container_network, fail) ==
    IF client = "None" THEN Rewrapped(Raise(w, "AttributeError"))
    ELSE
    LET w1 == Issue(w, "list_namespaced_pod", container_network, fail, "ApiException")
        pod_list == PodsIn(w1, container_network)
        w2 == Issue(w1, "list_namespaced_service", container_network, fail,
                    "ApiException")
        service_list == ServicesIn(w2, container_network)
        started == K8s_start_loop(w2, container_ids, 1, pod_list, service_list)
    IN  IF Failed(w1) THEN Rewrapped(w1)
        ELSE IF Failed(w2) THEN Rewrapped(w2)
        ELSE [started EXCEPT !.pods =
                 {p \in @ : ~(p \in pod_list /\ p.uid \in Range(container_ids))}]

K8s_start_container(w, client, container_ids, container_network, fail) ==
    IF client = "None" THEN Rewrapped(Raise(w, "AttributeError"))
    ELSE
    LET w1 == Issue(w, "list_namespaced_pod", container_network, fail, "ApiException")
        pod_list == PodsIn(w1, container_network)
        w2 == Issue(w1, "list_namespaced_service", container_network, fail,
                    "ApiException")
        service_list == ServicesIn(w2, container_network)
    IN  IF Failed(w1) THEN Rewrapped(w1)
        ELSE IF Failed(w2) THEN Rewrapped(w2)
        ELSE K8s_start_loop(w2, container_ids, 1, pod_list, service_list)

\* The Endpoints object the API server keeps for a Service: the ready Pods
\* (those with an address) of the namespace whose `app' label equals the
\* Service's selector, by name; subsets is None when there is none
Backing(w, svc) ==
    {p \in PodsIn(w, svc.namespace) : p.app = svc.selector /\ p.pod_ip # None}

\* KubernetesContainerManager.get_pods_for_service; the list is w.ret.
\* Every exception (a failed list call, iterating subsets = None) is
\* printed and replaced by an empty list
K8s_get_pods_for_service(w, client, service_name, namespace, fail) ==
    IF client = "None" THEN [w EXCEPT !.ret = <<>>]
    ELSE
    LET w1 == Issue(w, "list_namespaced_endpoints", namespace, fail, "ApiException")
        endpoints == {s \in ServicesIn(w1, namespace) : s.name = service_name}
    IN  IF Failed(w1) THEN [w1 EXCEPT !.exc = NoExc, !.ret = <<>>]
        ELSE IF endpoints = {} THEN [w1 EXCEPT !.ret = <<>>]
        ELSE LET endpoint == CHOOSE s \in endpoints : TRUE
                 uids == SortedSeq({p.uid : p \in Backing(w1, endpoint)})
             IN  [w1 EXCEPT !.ret =
                     [k \in 1..Len(uids) |->
                         (CHOOSE p \in w1.pods : p.uid = uids[k]).name]]

\* first loop of delete_container: resolve every id;
\* w.ret = [pods_to_delete, services_to_delete], sets of (name, container_id)
RECURSIVE K8s_resolve_loop(_, _, _, _, _, _, _, _)
K8s_resolve_loop(w, client, container_ids, i, container_network, pod_list, service_list, fail) ==
    IF i > Len(container_ids) THEN w
    ELSE
    LET container_id == container_ids[i]
        service_name == (CHOOSE s \in service_list : s.uid = container_id).name
        g == K8s_get_pods_for_service(w, client, service_name, container_network, fail)
        pod_names == g.ret
        w1 == IF \E p \in pod_list : p.uid = container_id
              THEN [w EXCEPT !.ret.pods_to_delete = @ \cup
                       {<<(CHOOSE p \in pod_list : p.uid = container_id).name,
                          container_id>>}]
              ELSE IF \E s \in service_list : s.uid = container_id
              THEN [g EXCEPT !.ret =
                       [pods_to_delete |-> w.ret.pods_to_delete \cup
                            {<<pod_names[k], container_id>> : k \in 1..Len(pod_names)},
                        services_to_delete |-> w.ret.services_to_delete \cup
                            {<<service_name, container_id>>}]]
              ELSE w
    IN  K8s_resolve_loop(w1, client, container_ids, i + 1, container_network,
                         pod_list, service_list, fail)

\* listing and resolving part of delete_container
K8s_delete_resolve(w, client, container_ids, container_network, fail) ==
    LET w1 == Issue(w, "list_namespaced_pod", container_network, fail, "ApiException")
        pod_list == PodsIn(w1, container_network)
        w2 == Issue(w1, "list_namespaced_service", container_network, fail,
                    "ApiException")
        service_list == ServicesIn(w2, container_network)
    IN  IF Failed(w1) THEN w1
        ELSE IF Failed(w2) THEN w2
        ELSE K8s_resolve_loop(
                [w2 EXCEPT !.ret = [pods_to_delete |-> {}, services_to_delete |-> {}]],
                client, container_ids, 1, container_network, pod_list, service_list,
                fail)

\* second loop: `for pod_to_delete in pods_to_delete', in iteration order po
RECURSIVE K8s_delete_pods(_, _, _, _, _)
K8s_delete_pods(w, po, i, container_network, fail) ==
    IF i > Len(po) THEN w
    ELSE
    LET pod_to_delete == po[i]
        w1 == Issue(w, "delete_namespaced_pod", pod_to_delete[1], fail, "ApiException")
    IN  IF Failed(w1) THEN w1
        ELSE IF ~\E p \in PodsIn(w1, container_network) : p.name = pod_to_delete[1]
        THEN Raise(w1, "ApiException")
        ELSE K8s_delete_pods(
                [w1 EXCEPT !.pods = {p \in @ : ~(p.namespace = container_network
                                                /\ p.name = pod_to_delete[1])},
                           !.result = Append(@,
                               [container_id |-> pod_to_delete[2],
                                container_network |-> container_network,
                                status |-> "deleted pod"])],
                po, i + 1, container_network, fail)

\* third loop: `for service_to_delete in services_to_delete', in iteration
\* order so; each entry is built from pod_to_delete, the variable the second
\* loop left behind (unbound when that loop did not run)
RECURSIVE K8s_delete_services(_, _, _, _, _, _)
K8s_delete_services(w, so, i, po, container_network, fail) ==
    IF i > Len(so) THEN w
    ELSE
    LET service_to_delete == so[i]
        w1 == Issue(w, "delete_namespaced_service", service_to_delete[1], fail,
                    "ApiException")
        w2 == [w1 EXCEPT !.services =
                  {s \in @ : ~(s.namespace = container_network
                               /\ s.name = service_to_delete[1])}]
    IN  IF Failed(w1) THEN w1
        ELSE IF ~\E s \in ServicesIn(w1, container_network) :
                     s.name = service_to_delete[1]
        THEN Raise(w1, "ApiException")
        ELSE IF po = <<>> THEN Raise(w2, "UnboundLocalError")
        ELSE K8s_delete_services(
                [w2 EXCEPT !.result = Append(@,
                               [container_id |-> po[Len(po)][2],
                                container_network |-> container_network,
                                status |-> "deleted service"])],
                so, i + 1, po, container_network, fail)

\* iteration orders of a Python set
Orderings(S) ==
    {f \in [1..Cardinality(S) -> S] : \A i, j \in 1..Cardinality(S) : i # j => f[i] # f[j]}

\* variant: the Services are deleted before the Pods
K8s_delete_container_services_first(w, client, container_ids, container_network, po, so, fail) ==
    IF client = "None" THEN Rewrapped(Raise(w, "AttributeError"))
    ELSE
    LET w1 == K8s_delete_resolve(w, client, container_ids, container_network, fail)
        w2 == K8s_delete_services(w1, so, 1, po, container_network, fail)
        w3 == K8s_delete_pods(w2, po, 1, container_network, fail)
    IN  IF Failed(w1) THEN Rewrapped(w1)
        ELSE IF Failed(w2) THEN Rewrapped(w2)
        ELSE Rewrapped(w3)

\* KubernetesContainerManager.delete_container; po and so are the orders in
\* which the two sets built by the first loop are iterated
K8s_delete_container(w, client, container_ids, container_network, po, so, fail) ==
    IF client = "None" THEN Rewrapped(Raise(w, "AttributeError"))
    ELSE
    LET w1 == K8s_delete_resolve(w, client, container_ids, container_network, fail)
        w2 == K8s_delete_pods(w1, po, 1, container_network, fail)
        w3 == K8s_delete_services(w2, so, 1, po, container_network, fail)
    IN  IF Failed(w1) THEN Rewrapped(w1)
        ELSE IF Failed(w2) THEN Rewrapped(w2)
        ELSE Rewrapped(w3)

\* variant: stop removes the Pods and keeps the Services
K8s_stop_container_pods_only(w, client, container_ids, container_network, po, so, fail) ==
    Rewrapped(K8s_delete_container(w, client, container_ids, container_network,
                                   po, <<>>, fail))

\* KubernetesContainerManager.stop_container
K8s_stop_container(w, client, container_ids, container_network, po, so, fail) ==
    Rewrapped(K8s_delete_container(w, client, container_ids, container_network,
                                   po, so, fail))

(* ============================ actions ================================== *)
\* no response is pending; `response' is what a handler hands back
Idle == [mgr |-> "none", op |-> "none", name |-> "", net |-> "", pm |-> <<>>,
         ids |-> <<>>, exc |-> NoExc, result |-> <<>>, calls |-> <<>>,
         faulted |-> 0, response |-> <<>>]

Call(mgr, op, name, net, pm, ids) ==
    [mgr |-> mgr, op |-> op, name |-> name, net |-> net, pm |-> pm, ids |-> ids]

\* the call has ended: the backend keeps what the call did to it, and the
\* caller sees the exception or the returned list
Commit(w, call) ==
    /\ networks' = w.networks
    /\ containers' = w.containers
    /\ namespaces' = w.namespaces
    /\ policies' = w.policies
    /\ pods' = w.pods
    /\ services' = w.services
    /\ nextUid' = w.nextUid
    /\ last' = [mgr |-> call.mgr, op |-> call.op, name |-> call.name,
                net |-> call.net, pm |-> call.pm, ids |-> call.ids,
                exc |-> Outcome(w).exc, result |-> Outcome(w).result,
                calls |-> w.calls, faulted |-> w.faulted, response |-> <<>>]
    /\ UNCHANGED runtime

Init ==
    /\ runtime \in Runtimes
    /\ networks = [n \in DockerNetworks |-> 0]
    /\ containers = [c \in Cids |-> AbsentContainer]
    /\ namespaces = {}
    /\ policies = {}
    /\ pods = {}
    /\ services = {}
    /\ nextUid = 1
    /\ last = Idle

\* where a transport fault can hit a call: at none of its backend calls (0)
\* or at any one of those the undisturbed call issues
FaultPoints(undisturbed) == 0..Len(undisturbed.calls)

DockerCreateNetwork ==
    /\ last = Idle
    /\ \E net \in DockerNetworks :
           \E fail \in FaultPoints(Docker_create_network(World, DockerClient(runtime),
                                                         net, 0)) :
               Commit(Docker_create_network(World, DockerClient(runtime), net, fail),
                      Call("docker", "create_network", "", net, <<>>, <<>>))

DockerCreate ==
    /\ last = Idle
    /\ \E name \in Names, net \in NetArgs, pm \in PublishMaps :
           \E fail \in FaultPoints(Docker_create_container(World, DockerClient(runtime),
                                       name, DockerNetworkOf(net), pm, 0)) :
               /\ \E c \in Cids : containers[c].status = "absent"
               /\ Commit(Docker_create_container(World, DockerClient(runtime), name,
                                                 DockerNetworkOf(net), pm, fail),
                         Call("docker", "create", name, DockerNetworkOf(net), pm, <<>>))

DockerStart ==
    /\ last = Idle
    /\ \E ids \in IdLists(MaxCid), net \in DockerNetworks :
           \E crash \in SUBSET Range(ids) :
               \E fail \in FaultPoints(Docker_start_container(World,
                                           DockerClient(runtime), ids, net, crash, 0)) :
                   Commit(Docker_start_container(World, DockerClient(runtime), ids, net,
                                                 crash, fail),
                          Call("docker", "start", "", net, <<>>, ids))

DockerStop ==
    /\ last = Idle
    /\ \E ids \in IdLists(MaxCid), net \in DockerNetworks :
           \E fail \in FaultPoints(Docker_stop_container(World, DockerClient(runtime),
                                                         ids, net, 0)) :
               Commit(Docker_stop_container(World, DockerClient(runtime), ids, net, fail),
                      Call("docker", "stop", "", net, <<>>, ids))

DockerDelete ==
    /\ last = Idle
    /\ \E ids \in IdLists(MaxCid), net \in DockerNetworks :
           \E fail \in FaultPoints(Docker_delete_container(World, DockerClient(runtime),
                                                           ids, net, 0)) :
               Commit(Docker_delete_container(World, DockerClient(runtime), ids, net,
                                              fail),
                      Call("docker", "delete", "", net, <<>>, ids))

K8sCreateNamespace ==
    /\ last = Idle
    /\ \E ns \in K8sNamespaces :
           \E fail \in FaultPoints(K8s_create_namespace(World, KubernetesClient(runtime),
                                                        ns, 0)) :
               Commit(Rewrapped(K8s_create_namespace(World, KubernetesClient(runtime),
                                                     ns, fail)),
                      Call("kubernetes", "create_namespace", "", ns, <<>>, <<>>))

K8sCreate ==
    /\ last = Idle
    /\ \E name \in Names, net \in NsArgs, pm \in PublishMaps :
           \E fail \in FaultPoints(K8s_create_container(World, KubernetesClient(runtime),
                                       name, K8sNamespaceOf(net), pm, 0)) :
               /\ nextUid + Len(pm) <= MaxUid
               /\ Commit(Rewrapped(K8s_create_container(World, KubernetesClient(runtime),
                                       name, K8sNamespaceOf(net), pm, fail)),
                         Call("kubernetes", "create", name, K8sNamespaceOf(net), pm, <<>>))

K8sStart ==
    /\ last = Idle
    /\ \E ids \in IdLists(MaxUid), ns \in K8sNsQueries :
           \E fail \in FaultPoints(K8s_start_container(World, KubernetesClient(runtime),
                                                       ids, ns, 0)) :
               Commit(K8s_start_container(World, KubernetesClient(runtime), ids, ns, fail),
                      Call("kubernetes", "start", "", ns, <<>>, ids))

\* the sets delete_container is about to iterate
ToDelete(ids, ns, fail) ==
    LET r == K8s_delete_resolve(World, KubernetesClient(runtime), ids, ns, fail)
    IN  IF KubernetesClient(runtime) = "None" \/ Failed(r)
        THEN [pods_to_delete |-> {}, services_to_delete |-> {}]
        ELSE r.ret

AnOrder(S) == CHOOSE f \in Orderings(S) : TRUE

\* delete_container as it runs when no transport fault hits it
UndisturbedDelete(ids, ns) ==
    K8s_delete_container(World, KubernetesClient(runtime), ids, ns,
                         AnOrder(ToDelete(ids, ns, 0).pods_to_delete),
                         AnOrder(ToDelete(ids, ns, 0).services_to_delete), 0)

K8sStop ==
    /\ last = Idle
    /\ \E ids \in IdLists(MaxUid), ns \in K8sNsQueries :
           \E fail \in FaultPoints(UndisturbedDelete(ids, ns)) :
               \E po \in Orderings(ToDelete(ids, ns, fail).pods_to_delete),
                  so \in Orderings(ToDelete(ids, ns, fail).services_to_delete) :
                   Commit(K8s_stop_container(World, KubernetesClient(runtime), ids, ns,
                                             po, so, fail),
                          Call("kubernetes", "stop", "", ns, <<>>, ids))

K8sDelete ==
    /\ last = Idle
    /\ \E ids \in IdLists(MaxUid), ns \in K8sNsQueries :
           \E fail \in FaultPoints(UndisturbedDelete(ids, ns)) :
               \E po \in Orderings(ToDelete(ids, ns, fail).pods_to_delete),
                  so \in Orderings(ToDelete(ids, ns, fail).services_to_delete) :
                   Commit(K8s_delete_container(World, KubernetesClient(runtime), ids, ns,
                                               po, so, fail),
                          Call("kubernetes", "delete", "", ns, <<>>, ids))

\* the cluster assigns an address to a pending Pod
PodScheduled ==
    \E p \in pods :
        /\ last = Idle
        /\ p.pod_ip = None
        /\ pods' = (pods \ {p}) \cup {[p EXCEPT !.pod_ip = p.uid]}
        /\ UNCHANGED <<runtime, networks, containers, namespaces, policies,
                       services, nextUid, last>>

\* another client of the cluster runs a Pod labelled app=<app>
LabelledPodAppears ==
    \E ns \in namespaces, app \in Names :
        /\ last = Idle
        /\ nextUid <= MaxUid
        /\ ~\E p \in pods : p.namespace = ns /\ p.name = "replica"
        /\ pods' = pods \cup {[uid |-> nextUid, name |-> "replica", namespace |-> ns,
                               app |-> app, pod_ip |-> None]}
        /\ nextUid' = nextUid + 1
        /\ UNCHANGED <<runtime, networks, containers, namespaces, policies,
                       services, last>>

(* ============================ handlers ================================= *)
\* a key the payload does not have
Absent == "(absent)"
\* dict.get(key, default)
PayloadGet(value, default) == IF value = Absent THEN default ELSE value
\* container_name of a start / stop / delete payload
PayloadNames == {Absent, "", "a"}

SUPPORTED_ENVIRONMENTS == {"docker", "kubernetes"}
ENV_CONTAINER_MGR_MAPPING == {"docker", "kubernetes"}

\* ContainerHandler.handle: the exception it raises, NoExc if none.  The
\* unsupported-environment branch builds exceptions.UnsupportedRuntimeEnvironment
\* without raising it
ContainerHandler_handle(runtime_environment) ==
    IF /\ runtime_environment \notin SUPPORTED_ENVIRONMENTS
       /\ ExceptionsAttr("UnsupportedRuntimeEnvironment") = "AttributeError"
    THEN "AttributeError"
    ELSE IF runtime_environment \notin ENV_CONTAINER_MGR_MAPPING
    THEN ExceptionsAttr("ContainerManagerNotFound")
    ELSE NoExc

\* the except clauses of calling_method and of ReadyContainerHandler.handle
CallingRewrap(kind) ==
    Handle(kind, <<"KeyError", "DockerException", "ApiException",
                   "ContainerClientNotResolved">>, 1, TRUE)
ReadyRewrap(kind) ==
    Handle(kind, <<"UnsupportedRuntimeEnvironment", "ContainerManagerNotFound",
                   "DockerException", "ApiException",
                   "ContainerClientNotResolved">>, 1, TRUE)

\* the manager method a calling_method runs
ManagerRun(w, rt, op, container_ids, container_network, crash, po, so, fail) ==
    IF rt = "docker"
    THEN CASE op = "start" -> Docker_start_container(w, DockerClient(rt), container_ids,
                                                     container_network, crash, fail)
           [] op = "stop" -> Docker_stop_container(w, DockerClient(rt), container_ids,
                                                   container_network, fail)
           [] op = "delete" -> Docker_delete_container(w, DockerClient(rt), container_ids,
                                                       container_network, fail)
    ELSE CASE op = "start" -> K8s_start_container(w, KubernetesClient(rt), container_ids,
                                                  container_network, fail)
           [] op = "stop" -> K8s_stop_container(w, KubernetesClient(rt), container_ids,
                                                container_network, po, so, fail)
           [] op = "delete" -> K8s_delete_container(w, KubernetesClient(rt), container_ids,
                                                    container_network, po, so, fail)

\* Start/Stop/DeleteContainerHandler.calling_method
calling_method(w, rt, op, container_ids, container_network, crash, po, so, fail) ==
    IF container_network = Absent THEN Raise(w, CallingRewrap("KeyError"))
    ELSE LET m == ManagerRun(w, rt, op, container_ids, container_network, crash,
                             po, so, fail)
         IN  [m EXCEPT !.exc = CallingRewrap(@)]

\* variant: the entry is replaced by the name alone
Annotated_name_only(res, container_name) == [container_name |-> container_name]

\* res["container_name"] = container_name
Annotated(res, container_name) ==
    [f \in DOMAIN res \cup {"container_name"} |->
        IF f = "container_name" THEN container_name ELSE res[f]]

\* ReadyContainerHandler.handle; w.ret is the list it returns, w.result the
\* list the manager returned
ReadyContainerHandler_handle(w, rt, op, payload_name, container_ids, container_network, crash, po, so, fail) ==
    IF ContainerHandler_handle(rt) # NoExc
    THEN Raise(w, ReadyRewrap(ContainerHandler_handle(rt)))
    ELSE
    LET container_name == PayloadGet(payload_name, "")
        calling_response == calling_method(w, rt, op, container_ids, container_network,
                                           crash, po, so, fail)
    IN  IF Failed(calling_response)
        THEN [calling_response EXCEPT !.exc = ReadyRewrap(@)]
        ELSE IF container_name # ""
        THEN [calling_response EXCEPT !.ret =
                 [i \in 1..Len(calling_response.result) |->
                     Annotated(calling_response.result[i], container_name)]]
        ELSE [calling_response EXCEPT !.ret = calling_response.result]

\* the handler has ended: the caller sees its exception or its list
CommitHandled(w, call) ==
    /\ networks' = w.networks
    /\ containers' = w.containers
    /\ namespaces' = w.namespaces
    /\ policies' = w.policies
    /\ pods' = w.pods
    /\ services' = w.services
    /\ nextUid' = w.nextUid
    /\ last' = [mgr |-> call.mgr, op |-> call.op, name |-> call.name,
                net |-> call.net, pm |-> call.pm, ids |-> call.ids,
                exc |-> w.exc,
                result |-> IF Failed(w) THEN <<>> ELSE w.result,
                calls |-> w.calls, faulted |-> w.faulted,
                response |-> IF Failed(w) THEN <<>> ELSE w.ret]
    /\ UNCHANGED runtime

\* the ids and boundaries a request names, by runtime
ReadyIds == IF runtime = "docker" THEN IdLists(MaxCid) ELSE IdLists(MaxUid)
ReadyNets == (IF runtime = "docker" THEN DockerNetworks ELSE K8sNsQueries)
             \cup {Absent}

\* a start / stop / delete request handled by its handler, on a backend
\* none of whose calls is hit by a transport fault (faults are injected in
\* the manager calls above)
ReadyRequest(op) ==
    /\ last = Idle
    /\ \E payload_name \in PayloadNames, ids \in ReadyIds, net \in ReadyNets :
         \E crash \in (IF runtime = "docker" /\ op = "start"
                       THEN SUBSET Range(ids) ELSE {{}}) :
           \E po \in Orderings(ToDelete(ids, net, 0).pods_to_delete),
              so \in Orderings(ToDelete(ids, net, 0).services_to_delete) :
               CommitHandled(ReadyContainerHandler_handle(World, runtime, op,
                                 payload_name, ids, net, crash, po, so, 0),
                             Call("handler", op, payload_name, net, <<>>, ids))

StartContainerHandler == ReadyRequest("start")
StopContainerHandler == ReadyRequest("stop")
DeleteContainerHandler == ReadyRequest("delete")

\* the except clauses of CreateContainerHandler.handle
CreateRewrap(kind) ==
    Handle(kind, <<"UnsupportedRuntimeEnvironment", "ContainerManagerNotFound",
                   "JSONDecodeError", "DockerException", "ApiException",
                   "ContainerClientNotResolved">>, 1, TRUE)

\* CreateContainerHandler.handle; w.ret is what it returns
CreateContainerHandler_handle(w, rt, container_name, container_network, publish_information) ==
    IF ContainerHandler_handle(rt) # NoExc
    THEN Raise(w, CreateRewrap(ContainerHandler_handle(rt)))
    ELSE
    LET response ==
            IF rt = "docker"
            THEN Docker_create_container(w, DockerClient(rt), container_name,
                     DockerNetworkOf(container_network), publish_information, 0)
            ELSE Rewrapped(K8s_create_container(w, KubernetesClient(rt), container_name,
                     K8sNamespaceOf(container_network), publish_information, 0))
    IN  [response EXCEPT !.exc = CreateRewrap(@), !.ret = response.result]

(* ============================ controller =============================== *)
\* the routes app.py registers, by endpoint name; all but ping carry a
\* <cnenv> path segment
Routes == {"ping", "create", "start", "stop", "delete"}
Cnenvs == {"docker", "kubernetes"}
HANDLERS_MAP == {"create", "start", "stop", "delete", "ping"}

\* the instance attributes of the Controller object: the class has no
\* __init__ and no method assigns to self
ControllerAttributes == {}

\* Controller.get_runtime_environment, from the presence of DOCKER_HOST and
\* of KUBERNETES_SERVICE_HOST in os.environ; it falls off its end otherwise
Controller_get_runtime_environment(docker_host, kubernetes_service_host) ==
    IF docker_host THEN "docker"
    ELSE IF kubernetes_service_host THEN "kubernetes"
    ELSE "None"

\* Controller.handle up to the point where it runs the handler: the status
\* it answers with, and the exception its try block caught (NoExc: none)
Controller_handle(cnenv, runtime_environment, handler_name) ==
    IF "request_params" \notin ControllerAttributes
    THEN [status |-> 500, exc |-> "AttributeError"]
    ELSE IF runtime_environment # PayloadGet(cnenv, "")
    THEN [status |-> 500, exc |-> ExceptionsAttr("EnvironmentMismatch")]
    ELSE IF handler_name \notin HANDLERS_MAP
    THEN [status |-> 404, exc |-> NoExc]
    ELSE [status |-> 200, exc |-> NoExc]

\* what the caller of the controller is answered when no handler ran: the
\* pending record, with the route, the HTTP status, the <cnenv> of the
\* route and the runtime the controller detected
Answer(route, exc, status, cnenv, runtime_environment) ==
    [Idle EXCEPT !.mgr = "controller", !.op = "handle", !.exc = exc]
    @@ [route |-> route, status |-> status, cnenv |-> cnenv,
        runtime_environment |-> runtime_environment]

\* handler(request_params=request_params).handle() of the route: the
\* handler runs as it does for any request that reaches it, and the
\* controller adds the status to its outcome (200 with the response, 500
\* when it raised)
HandlerRun(handler_name) ==
    CASE handler_name = "ping" ->
            /\ last' = [Idle EXCEPT !.mgr = "handler", !.op = "ping"]
            /\ UNCHANGED <<runtime, networks, containers, namespaces, policies,
                           pods, services, nextUid>>
      [] handler_name = "create" ->
            \E container_name \in Names, net \in NetArgs, pm \in PublishMaps :
                /\ \E c \in Cids : containers[c].status = "absent"
                /\ nextUid + Len(pm) <= MaxUid
                /\ CommitHandled(
                       CreateContainerHandler_handle(World, runtime, container_name,
                                                     net, pm),
                       Call("handler", "create", container_name, net, pm, <<>>))
      [] OTHER -> ReadyRequest(handler_name)

\* one HTTP request to a registered route, handled by Controller.handle
ControllerHandle ==
    /\ last = Idle
    /\ \E route \in Routes, cnenv \in Cnenvs, docker_host \in BOOLEAN,
          kubernetes_service_host \in BOOLEAN :
         LET view_args == IF route = "ping" THEN Absent ELSE cnenv
             runtime_environment ==
                 Controller_get_runtime_environment(docker_host,
                                                    kubernetes_service_host)
             before == Controller_handle(view_args, runtime_environment, route)
         IN  /\ runtime = "kubernetes" => kubernetes_service_host
             /\ runtime = "unknown" => ~kubernetes_service_host
             /\ IF before.status = 200
                THEN HandlerRun(route)
                ELSE /\ last' = Answer(route, before.exc, before.status, view_args,
                                       runtime_environment)
                     /\ UNCHANGED <<runtime, networks, containers, namespaces,
                                    policies, pods, services, nextUid>>

\* the pending response is handed to the caller
Deliver ==
    /\ last # Idle
    /\ last' = Idle
    /\ UNCHANGED <<runtime, networks, containers, namespaces, policies, pods,
                   services, nextUid>>

Next ==
    \/ DockerCreateNetwork
    \/ DockerCreate
    \/ DockerStart
    \/ DockerStop
    \/ DockerDelete
    \/ K8sCreateNamespace
    \/ K8sCreate
    \/ K8sStart
    \/ K8sStop
    \/ K8sDelete
    \/ PodScheduled
    \/ LabelledPodAppears
    \/ StartContainerHandler
    \/ StopContainerHandler
    \/ DeleteContainerHandler
    \/ Deliver

Spec == Init /\ [][Next]_vars

\* the requests that come in through the controller, on a backend that
\* create requests made directly to the managers have populated
ControllerNext ==
    \/ ControllerHandle
    \/ DockerCreateNetwork
    \/ DockerCreate
    \/ K8sCreateNamespace
    \/ K8sCreate
    \/ Deliver

SpecController == Init /\ [][ControllerNext]_vars

(* ================== two interleaved create requests ==================== *)
\* The development server answers each request on a thread of its own, so
\* two create_container calls run interleaved at the grain of their backend
\* calls.  Under SpecRace `last' holds the position of each thread.
Threads == {1, 2}
RaceRuntimes == {"docker", "kubernetes"}
ThreadIdle == [pc |-> "idle", name |-> "", net |-> "", exc |-> NoExc, result |-> <<>>]
ThreadsAt(th) == [mgr |-> "threads", th |-> th]

RaceInit ==
    /\ runtime \in RaceRuntimes
    /\ networks = [n \in DockerNetworks |-> 0]
    /\ containers = [c \in Cids |-> AbsentContainer]
    /\ namespaces = {}
    /\ policies = {}
    /\ pods = {}
    /\ services = {}
    /\ nextUid = 1
    /\ last = ThreadsAt([t \in Threads |-> ThreadIdle])

\* a create request with an empty publish map reaches its manager, whose
\* client is bound
RaceBegin(t) ==
    /\ last.th[t].pc = "idle"
    /\ \E name \in Names,
          net \in (IF runtime = "docker" THEN DockerNetworks ELSE K8sNsQueries) :
           last' = ThreadsAt([last.th EXCEPT ![t] =
                       [@ EXCEPT !.pc = "list", !.name = name, !.net = net]])
    /\ UNCHANGED <<runtime, networks, containers, namespaces, policies, pods,
                   services, nextUid>>

\* client.networks.list(names=[...]) / client.list_namespace(): the boundary
\* is created only when this lookup did not find it
RaceList(t) ==
    /\ last.th[t].pc = "list"
    /\ LET found == IF runtime = "docker" THEN networks[last.th[t].net] > 0
                    ELSE last.th[t].net \in namespaces
       IN  last' = ThreadsAt([last.th EXCEPT ![t].pc =
                                  IF found THEN "place" ELSE "create_boundary"])
    /\ UNCHANGED <<runtime, networks, containers, namespaces, policies, pods,
                   services, nextUid>>

\* client.networks.create(name): a daemon that does not enforce unique names
\* adds a second network of the name, one that does answers 409.
\* client.create_namespace(namespace): 409 when the namespace exists
RaceCreateBoundary(t) ==
    /\ last.th[t].pc = "create_boundary"
    /\ LET net == last.th[t].net
       IN  IF runtime = "docker"
           THEN \E enforced \in BOOLEAN :
                  IF enforced /\ networks[net] > 0
                  THEN /\ last' = ThreadsAt([last.th EXCEPT ![t] =
                              [@ EXCEPT !.pc = "failed_provisioning",
                                        !.exc = DockerRewrap("DockerException")]])
                       /\ UNCHANGED <<networks, namespaces>>
                  ELSE /\ networks' = [networks EXCEPT ![net] = @ + 1]
                       /\ last' = ThreadsAt([last.th EXCEPT ![t].pc = "place"])
                       /\ UNCHANGED namespaces
           ELSE IF net \in namespaces
                THEN /\ last' = ThreadsAt([last.th EXCEPT ![t] =
                            [@ EXCEPT !.pc = "failed_provisioning",
                                      !.exc = K8sRewrap("ApiException")]])
                     /\ UNCHANGED <<networks, namespaces>>
                ELSE /\ namespaces' = namespaces \cup {net}
                     /\ last' = ThreadsAt([last.th EXCEPT ![t].pc = "policy"])
                     /\ UNCHANGED networks
    /\ UNCHANGED <<runtime, containers, policies, pods, services, nextUid>>

\* networking_api.create_namespaced_network_policy(...), by the thread that
\* created the namespace
RacePolicy(t) ==
    /\ last.th[t].pc = "policy"
    /\ policies' = policies \cup {last.th[t].net}
    /\ last' = ThreadsAt([last.th EXCEPT ![t].pc = "place"])
    /\ UNCHANGED <<runtime, networks, containers, namespaces, pods, services,
                   nextUid>>

\* client.containers.create(...) / client.create_namespaced_pod(...) and the
\* else branch that builds the result; a name in use is answered 409
RacePlace(t) ==
    /\ last.th[t].pc = "place"
    /\ LET name == last.th[t].name
           net == last.th[t].net
           pod == [uid |-> nextUid, name |-> name, namespace |-> net,
                   app |-> PodManifest(name, {}).app, pod_ip |-> None]
       IN  IF runtime = "docker"
           THEN IF NameTaken(containers, name)
                THEN /\ last' = ThreadsAt([last.th EXCEPT ![t] =
                            [@ EXCEPT !.pc = "failed",
                                      !.exc = DockerRewrap("DockerException")]])
                     /\ UNCHANGED <<containers, pods, nextUid>>
                ELSE /\ containers' = [containers EXCEPT ![FreshCid(containers)] =
                            [name |-> name, network |-> net, status |-> "created"]]
                     /\ last' = ThreadsAt([last.th EXCEPT ![t] =
                            [@ EXCEPT !.pc = "done",
                                      !.result = DockerPortlessResult(
                                                    FreshCid(containers), net)]])
                     /\ UNCHANGED <<pods, nextUid>>
           ELSE IF \E p \in pods : p.namespace = net /\ p.name = name
                THEN /\ last' = ThreadsAt([last.th EXCEPT ![t] =
                            [@ EXCEPT !.pc = "failed",
                                      !.exc = K8sRewrap("ApiException")]])
                     /\ UNCHANGED <<containers, pods, nextUid>>
                ELSE /\ pods' = pods \cup {pod}
                     /\ nextUid' = nextUid + 1
                     /\ last' = ThreadsAt([last.th EXCEPT ![t] =
                            [@ EXCEPT !.pc = "done",
                                      !.result = K8sPortlessResult(pod)]])
                     /\ UNCHANGED containers
    /\ UNCHANGED <<runtime, networks, namespaces, policies, services>>

RaceNext ==
    \E t \in Threads :
        \/ RaceBegin(t)
        \/ RaceList(t)
        \/ RaceCreateBoundary(t)
        \/ RacePolicy(t)
        \/ RacePlace(t)

SpecRace == RaceInit /\ [][RaceNext]_vars

(* ============================= claims ================================== *)
IsCall(mgr, op) == last.mgr = mgr /\ last.op = op
ResultIds == [i \in 1..Len(last.result) |-> last.result[i].container_id]
\* no backend call of the pending call failed and its client is bound
BackendWentWell ==
    /\ last.exc \notin {"DockerException", "ApiException"}
    /\ last.mgr = "docker" => DockerClient(runtime) # "None"
    /\ last.mgr = "kubernetes" => KubernetesClient(runtime) # "None"

\* C1: a Docker create_container with N >= 1 publish entries, none of whose
\* backend calls failed, returns N entries that all carry the id of the one
\* container it created and, entry by entry, the host ports of the map.
C1_DockerCreateReturnsN ==
    (IsCall("docker", "create") /\ Len(last.pm) >= 1 /\ BackendWentWell)
    => /\ last.exc = NoExc
       /\ Len(last.result) = Len(last.pm)
       /\ \A i \in 1..Len(last.result) :
            /\ last.result[i].container_id = last.result[1].container_id
            /\ ContainerExists(containers, last.result[i].container_id)
            /\ containers[last.result[i].container_id].name = last.name
            /\ last.result[i].container_port = last.pm[i][2]

\* C2: a Kubernetes create_container with N >= 1 publish entries, none of
\* whose backend calls failed, creates exactly N Services and returns N
\* entries carrying the N pairwise distinct UIDs of those Services, the
\* namespace and each Service's external port.
C2_K8sCreateReturnsNServices ==
    (IsCall("kubernetes", "create") /\ Len(last.pm) >= 1 /\ BackendWentWell)
    => /\ last.exc = NoExc
       /\ Count(Verbs(last.calls), "create_namespaced_service") = Len(last.pm)
       /\ Len(last.result) = Len(last.pm)
       /\ \A i, j \in 1..Len(last.result) :
            i # j => last.result[i].container_id # last.result[j].container_id
       /\ \A i \in 1..Len(last.result) :
            /\ \E svc \in services :
                 /\ svc.uid = last.result[i].container_id
                 /\ svc.namespace = last.net
                 /\ svc.name = <<<<last.name, "service">>, i - 1>>
            /\ last.result[i].container_network = last.net
            /\ last.result[i].container_port = last.pm[i][2]

C2_Witness ==
    /\ IsCall("kubernetes", "create") /\ Len(last.pm) = 2 /\ last.exc = NoExc
    /\ Cardinality(services) = 2

\* C3: create_container with an empty publish map, none of whose backend
\* calls failed, returns exactly one entry with a null port: on Docker it
\* carries the id of the created container, on Kubernetes the UID of the
\* created Pod, and no Service is created.
C3_EmptyMapOneNullEntry ==
    (last.op = "create" /\ last.pm = <<>> /\ BackendWentWell)
    => /\ last.exc = NoExc
       /\ Len(last.result) = 1
       /\ last.result[1].container_port = None
       /\ last.result[1].container_network = last.net
       /\ IsCall("docker", "create") =>
            /\ ContainerExists(containers, last.result[1].container_id)
            /\ containers[last.result[1].container_id].name = last.name
       /\ IsCall("kubernetes", "create") =>
            /\ \E p \in pods : /\ p.uid = last.result[1].container_id
                               /\ p.name = last.name
                               /\ p.namespace = last.net
            /\ Count(Verbs(last.calls), "create_namespaced_service") = 0

C3_Witness ==
    /\ last.op = "create" /\ last.pm = <<>> /\ last.exc = NoExc
    /\ last.mgr = "kubernetes" /\ Len(last.result) = 1

\* delete_container of a manager, run undisturbed on
\* the present backend state, for each order the sets may be iterated in
DeleteRuns(mgr, ids, ns) ==
    IF mgr = "docker"
    THEN {Docker_delete_container(World, DockerClient(runtime), ids, ns, 0)}
    ELSE {K8s_delete_container(World, KubernetesClient(runtime), ids, ns, po, so, 0) :
            po \in Orderings(ToDelete(ids, ns, 0).pods_to_delete),
            so \in Orderings(ToDelete(ids, ns, 0).services_to_delete)}

\* C4: after a successful create_container, on either backend and for any
\* publish map, delete_container called next with exactly the returned ids,
\* on a healthy backend, completes without error.
C4_CreateThenDeleteSucceeds ==
    (last.op = "create" /\ last.exc = NoExc)
    => \A w \in DeleteRuns(last.mgr, ResultIds, last.net) : w.exc = NoExc

\* C5: after a Docker delete_container that returned, none of the
\* containers named by its ids exists in the daemon any more.
C5_DockerDeleteRemoves ==
    (IsCall("docker", "delete") /\ last.exc = NoExc)
    => \A i \in 1..Len(last.ids) : ~ContainerExists(containers, last.ids[i])

\* C6: on Kubernetes, once a workload made by create_container with a
\* non-empty publish map is running (its Pod has an address, so that the
\* Endpoints of its Services could list it), delete_container called with
\* the id of one of its Services leaves no Pod of that workload in the
\* namespace.
C6_ServiceDeleteTakesPod ==
    last = Idle =>
    \A svc \in services, p \in pods :
        (/\ p.namespace = svc.namespace
         /\ p.name \in Names
         /\ svc.name[1] = <<p.name, "service">>
         /\ p.pod_ip # None)
        => \A w \in DeleteRuns("kubernetes", <<svc.uid>>, svc.namespace) :
              ~\E q \in PodsIn(w, svc.namespace) : q.name = p.name

\* what a call leaves behind: the backend state, and what the caller sees
Observed(w) ==
    [namespaces |-> w.namespaces, policies |-> w.policies, pods |-> w.pods,
     services |-> w.services, nextUid |-> w.nextUid,
     exc |-> Outcome(w).exc, result |-> Outcome(w).result]

\* C7: on Kubernetes, from every backend state and for every id list,
\* namespace, fault and iteration order, stop_container and delete_container
\* leave the same backend state and give the caller the same list or the
\* same kind of failure.
C7_StopEqualsDelete ==
    last = Idle =>
    \A ids \in IdLists(MaxUid), ns \in K8sNsQueries :
      \A fail \in FaultPoints(UndisturbedDelete(ids, ns)) :
        \A po \in Orderings(ToDelete(ids, ns, fail).pods_to_delete),
           so \in Orderings(ToDelete(ids, ns, fail).services_to_delete) :
            Observed(K8s_stop_container(World, KubernetesClient(runtime), ids, ns,
                                        po, so, fail))
            = Observed(K8s_delete_container(World, KubernetesClient(runtime), ids,
                                            ns, po, so, fail))

\* a backend at rest on which stopping some ids removes a Pod and a Service
C7_Witness ==
    /\ last = Idle
    /\ \E ids \in IdLists(MaxUid), ns \in K8sNsQueries :
         \E po \in Orderings(ToDelete(ids, ns, 0).pods_to_delete),
            so \in Orderings(ToDelete(ids, ns, 0).services_to_delete) :
            LET w == K8s_stop_container(World, KubernetesClient(runtime), ids, ns,
                                        po, so, 0)
            IN  /\ w.exc = NoExc
                /\ w.pods # pods
                /\ w.services # services

LastReloaded == last.calls[Len(last.calls)][2]
ReadAttributes ==
    /\ IsCall("docker", "start") /\ last.calls # <<>>
    /\ last.calls[Len(last.calls)][1] = "container.reload"
    /\ last.exc # "DockerException"

\* C9: a Docker start_container that finds, after start and reload, no IP
\* address for the requested network name (no entry for the name, or an
\* empty address) fails with ContainerIpUnresolved; it never returns an
\* entry without an address.
C9_StartFailsAddressUnresolved ==
    /\ (ReadAttributes
        /\ (\/ last.net \notin AttrsNetworks(containers[LastReloaded])
            \/ IPAddress(containers, LastReloaded) = None))
       => last.exc = "ContainerIpUnresolved"
    /\ (IsCall("docker", "start") /\ last.exc = NoExc)
       => \A i \in 1..Len(last.result) : last.result[i].container_ip # None

\* the ids of the pending call that name a Pod or a Service of its namespace
KnownIn(ns, id) ==
    \/ \E p \in pods : p.namespace = ns /\ p.uid = id
    \/ \E svc \in services : svc.namespace = ns /\ svc.uid = id
AddressOf(ns, id) ==
    IF \E p \in pods : p.namespace = ns /\ p.uid = id
    THEN (CHOOSE p \in pods : p.namespace = ns /\ p.uid = id).pod_ip
    ELSE (CHOOSE svc \in services : svc.namespace = ns /\ svc.uid = id).cluster_ip

\* C10: a Kubernetes start_container that returns gives, in input order,
\* one entry per input id that is the UID of a Pod (with its podIP) or of a
\* Service (with its clusterIP) of the namespace, and nothing for the other
\* ids.
C10_K8sStartSubsequence ==
    (IsCall("kubernetes", "start") /\ last.exc = NoExc)
    => LET known == SelectSeq(last.ids, LAMBDA id : KnownIn(last.net, id))
       IN  last.result = [i \in 1..Len(known) |->
                             [container_id |-> known[i],
                              container_ip |-> AddressOf(last.net, known[i])]]

C10_Witness ==
    /\ IsCall("kubernetes", "start") /\ last.exc = NoExc
    /\ Len(last.ids) = 2 /\ Len(last.result) = 1
    /\ \E svc \in services : svc.uid = last.result[1].container_id

\* the backend calls that read (resolve ids) and those that delete
ResolvingVerbs == {"list_namespaced_pod", "list_namespaced_service",
                   "list_namespaced_endpoints"}
DeletingVerbs == {"delete_namespaced_pod", "delete_namespaced_service"}

\* C11: in the backend calls of a Kubernetes delete_container (and of
\* stop_container, which runs it), no Pod deletion comes after a Service
\* deletion and no resolving call (a list of Pods, Services or Endpoints)
\* comes after a deletion.
C11_PodsBeforeServices ==
    (last.mgr = "kubernetes" /\ last.op \in {"delete", "stop"})
    => LET verbs == Verbs(last.calls)
       IN  \A i, j \in 1..Len(verbs) :
             i < j => /\ ~(verbs[i] = "delete_namespaced_service"
                           /\ verbs[j] = "delete_namespaced_pod")
                      /\ ~(verbs[i] \in DeletingVerbs /\ verbs[j] \in ResolvingVerbs)

\* a delete that resolved a Service id and a Pod id and deleted both objects
C11_Witness ==
    /\ IsCall("kubernetes", "delete") /\ last.exc = NoExc
    /\ Count(Verbs(last.calls), "list_namespaced_endpoints") >= 1
    /\ Count(Verbs(last.calls), "delete_namespaced_pod") >= 1
    /\ Count(Verbs(last.calls), "delete_namespaced_service") >= 1

\* C12: a Docker stop_container or delete_container that fails (bound
\* client) raises and hands back no list; its backend calls are get and stop
\* for the ids in order up to the call that failed and none after it; and
\* every id whose stop went through before the failure stays stopped.
C12_DockerStopFailFast ==
    (/\ last.mgr = "docker" /\ last.op \in {"stop", "delete"}
     /\ DockerClient(runtime) # "None" /\ last.exc # NoExc)
    => /\ last.exc = "DockerException"
       /\ last.result = <<>>
       /\ Len(last.calls) \in 1..(2 * Len(last.ids))
       /\ \A j \in 1..Len(last.calls) :
            /\ last.calls[j][1] = (IF j % 2 = 1 THEN "containers.get"
                                                ELSE "container.stop")
            /\ last.calls[j][2] = last.ids[(j + 1) \div 2]
       /\ \A j \in 1..(Len(last.calls) - 1) :
            j % 2 = 0 => /\ ContainerExists(containers, last.ids[j \div 2])
                         /\ containers[last.ids[j \div 2]].status # "running"

\* the first id was stopped, the call then failed on the second id
C12_Witness ==
    /\ IsCall("docker", "stop") /\ last.exc = "DockerException"
    /\ Len(last.ids) = 2 /\ last.ids[1] # last.ids[2]
    /\ Len(last.calls) >= 3
    /\ containers[last.ids[1]].status = "exited"

\* the client of the manager of the pending call is None
ClientUnset ==
    \/ last.mgr = "docker" /\ DockerClient(runtime) = "None"
    \/ last.mgr = "kubernetes" /\ KubernetesClient(runtime) = "None"

\* C13: with the client of its manager unset, a boundary provisioner
\* (create_network, create_namespace) or a create_container fails with
\* ContainerClientNotResolved and issues no backend call.
C13_UnsetClientNotResolved ==
    (ClientUnset /\ last.op \in {"create_network", "create_namespace", "create"})
    => /\ last.exc = "ContainerClientNotResolved"
       /\ last.calls = <<>>

\* the Service manifests the pending call submitted, in submission order
ServiceManifests ==
    LET c == SelectSeq(last.calls, LAMBDA x : x[1] = "create_namespaced_service")
    IN  [i \in 1..Len(c) |-> c[i][2]]

PodManifests ==
    LET c == SelectSeq(last.calls, LAMBDA x : x[1] = "create_namespaced_pod")
    IN  [i \in 1..Len(c) |-> c[i][2]]

\* C15: for the publish map of a Kubernetes create_container (bound
\* client), extract_publish_information gives the set of the distinct
\* internal ports of the keys and a list with one item per entry, in map
\* order, holding the entry's external port, the internal port and the
\* protocol in upper case (an empty map: empty set, empty list); the Pod
\* then declares each internal port once and, when the call returns, one
\* Service per entry was submitted.
C15_ExtractPublishInformation ==
    (IsCall("kubernetes", "create") /\ KubernetesClient(runtime) # "None")
    => LET x == extract_publish_information(last.pm)
           port == (K80tcp :> 80) @@ (K80udp :> 80) @@ (K443tcp :> 443)
           proto == (K80tcp :> <<"T", "C", "P">>) @@ (K80udp :> <<"U", "D", "P">>)
                    @@ (K443tcp :> <<"T", "C", "P">>)
       IN  /\ x.exc = NoExc
           /\ x.unique_target_ports = {port[last.pm[i][1]] : i \in 1..Len(last.pm)}
           /\ Len(x.service_information_list) = Len(last.pm)
           /\ \A i \in 1..Len(last.pm) :
                x.service_information_list[i] =
                    [service_port |-> last.pm[i][2],
                     target_port |-> port[last.pm[i][1]],
                     protocol |-> proto[last.pm[i][1]]]
           /\ \A k \in 1..Len(PodManifests) :
                /\ Range(PodManifests[k].ports) = x.unique_target_ports
                /\ Len(PodManifests[k].ports) = Cardinality(x.unique_target_ports)
           /\ last.exc = NoExc =>
                /\ Len(ServiceManifests) = Len(last.pm)
                /\ \A i \in 1..Len(last.pm) :
                     /\ ServiceManifests[i].target_port = port[last.pm[i][1]]
                     /\ ServiceManifests[i].protocol = proto[last.pm[i][1]]

\* 80/tcp and 80/udp together: one container port, two Services
C15_Witness ==
    /\ IsCall("kubernetes", "create") /\ last.exc = NoExc
    /\ Len(last.pm) = 2
    /\ Len(PodManifests) = 1 /\ PodManifests[1].ports = <<80>>
    /\ Len(ServiceManifests) = 2
    /\ ServiceManifests[1].protocol # ServiceManifests[2].protocol

\* the backend calls that place a resource, and those that look for or
\* create a boundary
PlacingVerbs == {"containers.create", "create_namespaced_pod",
                 "create_namespaced_service"}
BoundaryVerbs == {"networks.list", "networks.create", "list_namespace",
                  "create_namespace", "create_namespaced_network_policy"}
BoundaryExists(mgr, net) ==
    IF mgr = "docker" THEN networks[net] >= 1 ELSE net \in namespaces

C17_PodsUnderPolicy ==
    \A p \in pods : p.name \in Names => p.namespace \in policies

\* C18: a Kubernetes create_container that fails (bound client) issues no
\* delete call, and everything its earlier backend calls created is still
\* there: the namespace, its policy, the Pod, and the Services made before
\* the call that failed.
C18_CreateNoRollback ==
    (IsCall("kubernetes", "create") /\ KubernetesClient(runtime) # "None"
     /\ last.exc # NoExc)
    => /\ \A j \in 1..Len(last.calls) : last.calls[j][1] \notin DeletingVerbs
       /\ \A j \in 1..(Len(last.calls) - 1) :
            LET verb == last.calls[j][1]
                arg == last.calls[j][2]
            IN  /\ verb = "create_namespace" => arg \in namespaces
                /\ verb = "create_namespaced_network_policy" => arg \in policies
                /\ verb = "create_namespaced_pod" =>
                      \E p \in pods : p.name = arg.name /\ p.namespace = last.net
                /\ verb = "create_namespaced_service" =>
                      \E svc \in services : /\ svc.name = arg.name
                                             /\ svc.namespace = last.net

\* the second Service could not be created: namespace, Pod and the first
\* Service remain
C18_Witness ==
    /\ IsCall("kubernetes", "create") /\ last.exc = "ApiException"
    /\ Len(ServiceManifests) = 2
    /\ last.net \in namespaces
    /\ \E p \in pods : p.name = last.name
    /\ \E svc \in services : svc.name = <<<<last.name, "service">>, 0>>
    /\ ~\E svc \in services : svc.name = <<<<last.name, "service">>, 1>>

\* C19: a manager call one of whose backend calls failed does not return
\* normally; in particular a Kubernetes delete_container whose listing of
\* Endpoints failed fails too.
C19_NoFailureSwallowed ==
    last.faulted # 0 => last.exc # NoExc

\* C20: a start, stop or delete request whose handler returns gives back,
\* when the payload has a non-empty container_name, the manager's entries
\* in the same order, each with container_name added and nothing else
\* changed; when container_name is absent or empty, the manager's list.
C20_HandlerAnnotates ==
    (last.mgr = "handler" /\ last.exc = NoExc)
    => IF last.name \notin {Absent, ""}
       THEN /\ Len(last.response) = Len(last.result)
            /\ \A i \in 1..Len(last.result) :
                 /\ DOMAIN last.response[i] =
                        DOMAIN last.result[i] \cup {"container_name"}
                 /\ last.response[i].container_name = last.name
                 /\ \A f \in DOMAIN last.result[i] :
                        last.response[i][f] = last.result[i][f]
       ELSE last.response = last.result

\* a stop request naming its workload got two annotated entries back
C20_Witness ==
    /\ last.mgr = "handler" /\ last.op = "stop" /\ last.exc = NoExc
    /\ last.name = "a"
    /\ Len(last.response) = 2
    /\ last.response[1].container_name = "a"

\* the backend calls of the pending call that act on a container (all but
\* the lookups)
ContainerActs == SelectSeq(last.calls, LAMBDA x : x[1] # "containers.get")

\* C21: a Docker stop_container (delete_container) that returns gives one
\* entry per input id, in input order, with that id, the given network and
\* status "stopped" ("deleted"), and has issued, in input order, exactly
\* one backend stop (one backend removal) per input id.
C21_DockerStopPerId ==
    (last.mgr = "docker" /\ last.op \in {"stop", "delete"} /\ last.exc = NoExc)
    => /\ last.result =
            [i \in 1..Len(last.ids) |->
                [container_id |-> last.ids[i], container_network |-> last.net,
                 status |-> IF last.op = "stop" THEN "stopped" ELSE "deleted"]]
       /\ ContainerActs =
            [i \in 1..Len(last.ids) |->
                <<IF last.op = "stop" THEN "container.stop" ELSE "container.remove",
                  last.ids[i]>>]

\* the names one call passed to backend calls of the given verb, in order
NamesPassed(verb) ==
    LET hits == SelectSeq(last.calls, LAMBDA x : x[1] = verb)
    IN  [i \in 1..Len(hits) |-> hits[i][2]]

NoRepeat(seq) == \A i, j \in 1..Len(seq) : i # j => seq[i] # seq[j]

EntriesWith(status) == SelectSeq(last.result, LAMBDA e : e.status = status)

\* C22: one Kubernetes delete_container call deletes each distinct Pod at
\* most once and each distinct Service at most once, and when it returns it
\* holds exactly one "deleted pod" entry per Pod deleted and one "deleted
\* service" entry per Service deleted, also when a Pod is reached through
\* several input ids.
C22_EachResourceDeletedOnce ==
    IsCall("kubernetes", "delete")
    => /\ NoRepeat(NamesPassed("delete_namespaced_pod"))
       /\ NoRepeat(NamesPassed("delete_namespaced_service"))
       /\ last.exc = NoExc
            => /\ Len(EntriesWith("deleted pod")) =
                    Len(NamesPassed("delete_namespaced_pod"))
               /\ Len(EntriesWith("deleted service")) =
                    Len(NamesPassed("delete_namespaced_service"))

\* a delete_container call on a bound client that no transport fault hit
\* has just been answered
DeleteAnswered ==
    /\ last = Idle
    /\ IsCall("kubernetes", "delete")'
    /\ KubernetesClient(runtime) # "None"
    /\ last'.faulted = 0

\* C23: every "deleted service" entry of a Kubernetes delete_container
\* carries the UID of the Service deleted for it, and deleting one Service
\* that no Pod backs succeeds and returns exactly that one "deleted
\* service" entry.
C23_DeletedServiceEntry ==
    [][DeleteAnswered =>
        /\ last'.exc = NoExc
             => \A i \in 1..Len(EntriesWith("deleted service")') :
                  \E s \in services :
                    /\ s.namespace = last'.net
                    /\ s.name = NamesPassed("delete_namespaced_service")'[i]
                    /\ s.uid = EntriesWith("deleted service")'[i].container_id
        /\ \A s \in services :
             (/\ last'.ids = <<s.uid>>
              /\ last'.net = s.namespace
              /\ Backing([pods |-> pods], s) = {})
             => /\ last'.exc = NoExc
                /\ last'.result = <<[container_id |-> s.uid,
                                     container_network |-> s.namespace,
                                     status |-> "deleted service"]>>]_vars

\* C24: with the Kubernetes client unset, start_container, stop_container
\* and delete_container fail with ContainerClientNotResolved, the failure
\* create_container is specified to give.
C24_K8sUnsetClientOnReady ==
    (/\ last.mgr = "kubernetes"
     /\ ClientUnset
     /\ last.op \in {"start", "stop", "delete"})
    => last.exc = "ContainerClientNotResolved"

\* C25: no start_container that returns, on either backend, holds an entry
\* whose container_ip is null, and a Kubernetes start_container asked for a
\* Pod or Service that has no address yet fails with ContainerIpUnresolved.
C25_NoEntryWithoutAddress ==
    /\ (last.mgr \in {"docker", "kubernetes"} /\ last.op = "start"
        /\ last.exc = NoExc)
       => \A i \in 1..Len(last.result) : last.result[i].container_ip # None
    /\ (/\ IsCall("kubernetes", "start") /\ ~ClientUnset /\ last.faulted = 0
        /\ \E i \in 1..Len(last.ids) :
               /\ KnownIn(last.net, last.ids[i])
               /\ AddressOf(last.net, last.ids[i]) = None)
       => last.exc = "ContainerIpUnresolved"

\* C26: Controller.handle accepts a request to a create / start / stop /
\* delete route exactly when the <cnenv> of the route equals the runtime it
\* detected: such a request is never answered without its handler having
\* run, and a request answered without a handler is one whose <cnenv>
\* differs, answered with the EnvironmentMismatch error.
C26_AcceptsExactlyMatchingEnvironment ==
    (last.mgr = "controller" /\ last.route \in {"create", "start", "stop", "delete"})
    => /\ last.cnenv # last.runtime_environment
       /\ last.exc = "EnvironmentMismatch"
       /\ last.status # 200

\* the boundaries of the given name that exist
BoundaryCount(net) ==
    IF runtime = "docker" THEN networks[net]
    ELSE IF net \in namespaces THEN 1 ELSE 0

\* C27: two interleaved create requests that ensure the same boundary, which
\* did not exist before, both get past provisioning without error, and
\* exactly one boundary of that name exists afterwards: the check-then-create
\* gives neither a duplicate nor an already-exists failure.
C27_RaceOneBoundary ==
    \A t, u \in Threads :
        (/\ t # u
         /\ last.th[t].pc # "idle" /\ last.th[u].pc # "idle"
         /\ last.th[t].net = last.th[u].net)
        => /\ last.th[t].pc # "failed_provisioning"
           /\ BoundaryCount(last.th[t].net) <= 1
           /\ (last.th[t].pc \in {"place", "done", "failed"}
               /\ last.th[u].pc \in {"place", "done", "failed"})
              => BoundaryCount(last.th[t].net) = 1

\* C28: a Docker create_container call creates at most one backend
\* container, exactly one when it returns, and whenever it created one it
\* returns a non-empty result each of whose entries carries the id of that
\* container: no container is left behind unreported.
C28_DockerCreateNoOrphan ==
    [][(last = Idle /\ IsCall("docker", "create")')
       => LET created == {c \in Cids : /\ containers[c].status = "absent"
                                       /\ containers'[c].status # "absent"}
          IN  /\ Cardinality(created) <= 1
              /\ last'.exc = NoExc => Cardinality(created) = 1
              /\ \A c \in created :
                    /\ last'.exc = NoExc
                    /\ last'.result # <<>>
                    /\ \A i \in 1..Len(last'.result) :
                          last'.result[i].container_id = c]_vars

\* C29: a Kubernetes start_container only reads: every backend call it
\* issues is a list call, and namespaces, policies, Pods and Services are
\* after the call what they were before it, whether it returns or raises.
C29_K8sStartReadOnly ==
    [][(last = Idle /\ IsCall("kubernetes", "start")')
       => /\ \A i \in 1..Len(last'.calls) :
                last'.calls[i][1] \in {"list_namespaced_pod", "list_namespaced_service"}
          /\ UNCHANGED <<namespaces, policies, pods, services, networks,
                         containers, nextUid>>]_vars

\* a start_container that reported a Pod and a Service has been answered
C29_Witness ==
    /\ IsCall("kubernetes", "start") /\ last.exc = NoExc
    /\ Len(last.result) = 2
    /\ \E p \in pods : p.uid = last.result[1].container_id
    /\ \E svc \in services : svc.uid = last.result[2].container_id

\* a Docker start_container has failed where it reads the address of the
\* container it has just started and reloaded (no entry for the network
\* name, or an empty address)
AddressUnresolved == ReadAttributes /\ last.exc # NoExc
\* the position in the id list of the id that call failed at: three backend
\* calls (get, start, reload) are issued per id
FailedAt == Len(last.calls) \div 3
StartIssued(id) == \E j \in 1..Len(last.calls) : last.calls[j] = <<"container.start", id>>
OnlyStarting ==
    \A j \in 1..Len(last.calls) :
        last.calls[j][1] \in {"containers.get", "container.start", "container.reload"}

\* C30 as stated: when a Docker start_container fails because the address of
\* the k-th id is unresolved, the containers of ids 1..k, the k-th included,
\* have been started and are running, nothing was undone, and the call
\* gives no entries.
C30_FailedStartAllRunning ==
    AddressUnresolved
    => /\ \A i \in 1..FailedAt :
             /\ StartIssued(last.ids[i])
             /\ containers[last.ids[i]].status = "running"
       /\ OnlyStarting
       /\ last.result = <<>>

\* C30, amended: a start was issued for each of the ids 1..k and nothing
\* was undone; the containers of ids 1..k-1 are running, the k-th is as the
\* daemon left it after the start (running, or exited when its process ended
\* at once, which is what leaves it without an address); no entries.
C30_FailedStartNotRolledBack ==
    AddressUnresolved
    => /\ \A i \in 1..FailedAt : StartIssued(last.ids[i])
       /\ \A i \in 1..(FailedAt - 1) : containers[last.ids[i]].status = "running"
       /\ containers[last.ids[FailedAt]].status \in {"running", "exited"}
       /\ containers[last.ids[FailedAt]].status = "running"
            => last.net \notin AttrsNetworks(containers[last.ids[FailedAt]])
       /\ OnlyStarting
       /\ last.result = <<>>

\* the start failed at its second id, whose container ended at once, after
\* the first had been started
C30_Witness ==
    /\ AddressUnresolved /\ FailedAt = 2
    /\ containers[last.ids[1]].status = "running"
    /\ containers[last.ids[2]].status = "exited"

====
